---- MODULE Spec2Model ----
(***************************************************************************)
(* Models of the RustAPI example programs:                                 *)
(*   graphql-api     the lock-guarded book catalogue (Database)            *)
(*   microservices   the gateway and its two backend services              *)
(*   rate-limit-demo, phase11-demo, hello-world   the plain handlers       *)
(* Strings that the programs build with format! are sequences of           *)
(* one-character strings, so that concatenation is computed.               *)
(***************************************************************************)
EXTENDS Integers, Sequences, FiniteSets, TLC

\* ------------------------------------------------------------------ bounds
NTasks == 2          \* concurrent request tasks on the catalogue
MaxCalls == 3        \* add_book calls started in one run
MaxGwReqs == 2       \* inbound requests to the gateway in one run
MaxServed == 2       \* requests answered by one run of the plain handlers
MaxSlowReqs == 2     \* requests to GET /slow in one run
MaxRlReqs == 6       \* requests answered by the rate-limit demo in one run
MaxRlNow == 60       \* seconds the clock of the rate-limit demo advances

\* ------------------------------------------------------- program constants
SeedNextBookId == 3  \* Database::new: next_book_id
SlowDelaySecs == 35  \* slow_endpoint: Duration::from_secs(35)
IntendedTimeoutSecs == 30   \* slow_endpoint: "This would timeout with a 30s timeout"
LimitedPerMinute == 5       \* limited_endpoint: "5 requests per minute"
RelaxedPerMinute == 100     \* relaxed_endpoint: "100 requests per minute"
StartupDelaySecs == 2       \* microservices main: Duration::from_secs(2)

VARIABLES
    \* graphql-api: Database
    books,          \* HashMap<u64, Book> behind self.books
    next_book_id,   \* u64 behind self.next_book_id
    booksWriter,    \* task holding the write guard of self.books, or 0
    booksReaders,   \* tasks holding a read guard of self.books
    idWriter,       \* task holding the write guard of self.next_book_id, or 0
    pc,             \* each request task's position in the operation it runs
    local,          \* each task's locals: id, book (add_book), key (get_book), out (the value it returns)
    clock,          \* logical time of call starts and returns of add_book
    started,        \* per task, the clock at which its running add_book started
    history,        \* the add_book calls that have returned: [id, start, end]
    pending         \* per task, the requests still to arrive for it; -1: any number

VARIABLES
    \* microservices
    gw,             \* per inbound gateway request: its state, route, id, reply, response
    gwOut           \* the outbound requests the gateway has sent, in order

VARIABLES
    \* hello-world, phase11-demo, rate-limit-demo, microservices backends
    served,         \* the requests one run of the servers has answered, in order
    fresh           \* the requests a second, freshly started run has answered

VARIABLES
    \* phase11-demo: GET /slow
    slow            \* per request to /slow: its state, the seconds slept, the body

VARIABLES
    \* rate-limit-demo
    rlNow,          \* SystemTime::now() in seconds since the epoch of the run
    rlLog           \* the requests answered, in order: route, time, response

VARIABLES
    \* microservices: main
    mainPc,         \* where main is: start, spawn_order, sleep, gateway, join, returned
    mainSlept,      \* seconds of the start-up sleep that have passed
    mainWaited,     \* whether main has awaited try_join!(user_service, order_service)
    mainResult,     \* what main returned: "none", "Ok" or "Err"
    svc,            \* the spawned user and order service tasks
    gateway         \* gateway::start(), awaited by main

catVars == <<books, next_book_id, booksWriter, booksReaders, idWriter,
             pc, local, clock, started, history, pending>>
gwVars == <<gw, gwOut>>
plainVars == <<served, fresh>>
slowVars == <<slow>>
rlVars == <<rlNow, rlLog>>
mainVars == <<mainPc, mainSlept, mainWaited, mainResult, svc, gateway>>
vars == <<catVars, gwVars, plainVars, slowVars, rlVars, mainVars>>

notCat == <<gwVars, plainVars, slowVars, rlVars, mainVars>>
notGw == <<catVars, plainVars, slowVars, rlVars, mainVars>>
notPlain == <<catVars, gwVars, slowVars, rlVars, mainVars>>
notSlow == <<catVars, gwVars, plainVars, rlVars, mainVars>>
notRl == <<catVars, gwVars, plainVars, slowVars, mainVars>>
notMain == <<catVars, gwVars, plainVars, slowVars, rlVars>>

\* ================================================================ graphql-api
Tasks == 1..NTasks
NoTask == 0
None == [none |-> TRUE]

Titles == {"Dune"}
Authors == {"Herbert"}
Years == {1965}

Book(id, title, author, year) ==
    [id |-> id, title |-> title, author |-> author, year |-> year]

SeedBooks ==
    (1 :> Book(1, "The Rust Programming Language", "Steve Klabnik", 2018))
    @@ (2 :> Book(2, "Programming Rust", "Jim Blandy", 2021))

NoLocal == [id |-> 0, book |-> None, key |-> 0, out |-> None]

\* HashMap::insert: the entry under the key is added or replaced
Insert(map, k, v) == [x \in (DOMAIN map) \cup {k} |-> IF x = k THEN v ELSE map[x]]

\* Database::new
CatInit ==
    /\ books = SeedBooks
    /\ next_book_id = SeedNextBookId
    /\ booksWriter = NoTask
    /\ booksReaders = {}
    /\ idWriter = NoTask
    /\ pc = [t \in Tasks |-> "idle"]
    /\ local = [t \in Tasks |-> NoLocal]
    /\ clock = 0
    /\ started = [t \in Tasks |-> 0]
    /\ history = {}
    /\ pending = [t \in Tasks |-> -1]

\* Database::new, with one request to come for each task
CatInitOnce ==
    /\ books = SeedBooks
    /\ next_book_id = SeedNextBookId
    /\ booksWriter = NoTask
    /\ booksReaders = {}
    /\ idWriter = NoTask
    /\ pc = [t \in Tasks |-> "idle"]
    /\ local = [t \in Tasks |-> NoLocal]
    /\ clock = 0
    /\ started = [t \in Tasks |-> 0]
    /\ history = {}
    /\ pending = [t \in Tasks |-> 1]

\* a request arrives for task t
Arrives(t) ==
    /\ pending[t] # 0
    /\ pending' = [pending EXCEPT ![t] = IF @ > 0 THEN @ - 1 ELSE @]

\* ---- add_book
\* MutationRoot::add_book calls db.add_book(title, author, year)
AddCall(t) ==
    /\ pc[t] = "idle"
    /\ clock < 2 * MaxCalls - 1
    /\ Cardinality(history) + Cardinality({u \in Tasks : started[u] > 0}) < MaxCalls
    /\ \E title \in Titles, author \in Authors, year \in Years :
         local' = [local EXCEPT ![t] =
                     [NoLocal EXCEPT !.book = Book(0, title, author, year)]]
    /\ pc' = [pc EXCEPT ![t] = "add_lock_id"]
    /\ clock' = clock + 1
    /\ started' = [started EXCEPT ![t] = clock + 1]
    /\ UNCHANGED <<books, next_book_id, booksWriter, booksReaders, idWriter, history>>
    /\ UNCHANGED notCat
    /\ Arrives(t)

\* an add_book that goes on without taking the counter's lock
AddLockIdNoLock(t) ==
    /\ pc[t] = "add_lock_id"
    /\ pc' = [pc EXCEPT ![t] = "add_read_id"]
    /\ UNCHANGED <<books, next_book_id, booksWriter, booksReaders, idWriter,
                   local, clock, started, history>>
    /\ UNCHANGED notCat
    /\ UNCHANGED pending

\* let mut id_lock = self.next_book_id.write().unwrap();  (blocks while held)
AddLockId(t) ==
    /\ pc[t] = "add_lock_id"
    /\ idWriter = NoTask
    /\ idWriter' = t
    /\ pc' = [pc EXCEPT ![t] = "add_read_id"]
    /\ UNCHANGED <<books, next_book_id, booksWriter, booksReaders,
                   local, clock, started, history>>
    /\ UNCHANGED notCat
    /\ UNCHANGED pending

\* let id = *id_lock;
AddReadId(t) ==
    /\ pc[t] = "add_read_id"
    /\ local' = [local EXCEPT ![t].id = next_book_id]
    /\ pc' = [pc EXCEPT ![t] = "add_inc"]
    /\ UNCHANGED <<books, next_book_id, booksWriter, booksReaders, idWriter,
                   clock, started, history>>
    /\ UNCHANGED notCat
    /\ UNCHANGED pending

\* an add_book that forgets to advance the counter
AddIncForget(t) ==
    /\ pc[t] = "add_inc"
    /\ local' = [local EXCEPT ![t].book = [@ EXCEPT !.id = local[t].id]]
    /\ pc' = [pc EXCEPT ![t] = "add_lock_books"]
    /\ UNCHANGED <<books, next_book_id, booksWriter, booksReaders, idWriter,
                   clock, started, history>>
    /\ UNCHANGED notCat
    /\ UNCHANGED pending

\* *id_lock += 1;
\* let book = Book { id, title, author, year };   (local to the task)
AddInc(t) ==
    /\ pc[t] = "add_inc"
    /\ next_book_id' = next_book_id + 1
    /\ local' = [local EXCEPT ![t].book = [@ EXCEPT !.id = local[t].id]]
    /\ pc' = [pc EXCEPT ![t] = "add_lock_books"]
    /\ UNCHANGED <<books, booksWriter, booksReaders, idWriter,
                   clock, started, history>>
    /\ UNCHANGED notCat
    /\ UNCHANGED pending

\* a write lock that does not wait for the readers to leave
AddLockBooksNoWait(t) ==
    /\ pc[t] = "add_lock_books"
    /\ booksWriter = NoTask
    /\ booksWriter' = t
    /\ pc' = [pc EXCEPT ![t] = "add_insert"]
    /\ UNCHANGED <<books, next_book_id, booksReaders, idWriter,
                   local, clock, started, history>>
    /\ UNCHANGED notCat
    /\ UNCHANGED pending

\* self.books.write().unwrap()   (blocks while a writer or a reader holds it)
AddLockBooks(t) ==
    /\ pc[t] = "add_lock_books"
    /\ booksWriter = NoTask
    /\ booksReaders = {}
    /\ booksWriter' = t
    /\ pc' = [pc EXCEPT ![t] = "add_insert"]
    /\ UNCHANGED <<books, next_book_id, booksReaders, idWriter,
                   local, clock, started, history>>
    /\ UNCHANGED notCat
    /\ UNCHANGED pending

\* .insert(id, book.clone());
AddInsert(t) ==
    /\ pc[t] = "add_insert"
    /\ books' = Insert(books, local[t].id, local[t].book)
    /\ local' = [local EXCEPT ![t].out = local[t].book]
    /\ pc' = [pc EXCEPT ![t] = "add_unlock_books"]
    /\ UNCHANGED <<next_book_id, booksWriter, booksReaders, idWriter,
                   clock, started, history>>
    /\ UNCHANGED notCat
    /\ UNCHANGED pending

\* an add_book that keeps the write guard of books past the insert statement
AddUnlockBooksKeep(t) ==
    /\ pc[t] = "add_unlock_books"
    /\ pc' = [pc EXCEPT ![t] = "add_return"]
    /\ UNCHANGED <<books, next_book_id, booksWriter, booksReaders, idWriter,
                   local, clock, started, history>>
    /\ UNCHANGED notCat
    /\ UNCHANGED pending

\* end of the insert statement: the temporary write guard of books is dropped
AddUnlockBooks(t) ==
    /\ pc[t] = "add_unlock_books"
    /\ booksWriter' = NoTask
    /\ pc' = [pc EXCEPT ![t] = "add_return"]
    /\ UNCHANGED <<books, next_book_id, booksReaders, idWriter,
                   local, clock, started, history>>
    /\ UNCHANGED notCat
    /\ UNCHANGED pending

\* book  } : the book is returned and id_lock goes out of scope
AddReturn(t) ==
    /\ pc[t] = "add_return"
    /\ idWriter' = IF idWriter = t THEN NoTask ELSE idWriter
    /\ clock' = clock + 1
    /\ history' = history \cup
                    {[id |-> local[t].out.id, start |-> started[t], end |-> clock + 1]}
    /\ started' = [started EXCEPT ![t] = 0]
    /\ local' = [local EXCEPT ![t] = NoLocal]
    /\ pc' = [pc EXCEPT ![t] = "idle"]
    /\ UNCHANGED <<books, next_book_id, booksWriter, booksReaders>>
    /\ UNCHANGED notCat
    /\ UNCHANGED pending

\* ---- get_book
Keys == {1, SeedNextBookId}

\* QueryRoot::book calls db.get_book(id)
GetCall(t) ==
    /\ pc[t] = "idle"
    /\ \E id \in Keys : local' = [local EXCEPT ![t] = [NoLocal EXCEPT !.key = id]]
    /\ pc' = [pc EXCEPT ![t] = "get_lock"]
    /\ UNCHANGED <<books, next_book_id, booksWriter, booksReaders, idWriter,
                   clock, started, history>>
    /\ UNCHANGED notCat
    /\ Arrives(t)

\* self.books.read().unwrap()   (blocks while a writer holds it)
GetLock(t) ==
    /\ pc[t] = "get_lock"
    /\ booksWriter = NoTask
    /\ booksReaders' = booksReaders \cup {t}
    /\ pc' = [pc EXCEPT ![t] = "get_read"]
    /\ UNCHANGED <<books, next_book_id, booksWriter, idWriter,
                   local, clock, started, history>>
    /\ UNCHANGED notCat
    /\ UNCHANGED pending

\* a get_book that reads the counter too: it waits for the counter's lock
\* while it holds the read guard of books
GetReadAfterIdLock(t) ==
    /\ pc[t] = "get_read"
    /\ idWriter = NoTask
    /\ local' = [local EXCEPT ![t].out =
                   IF local[t].key \in DOMAIN books THEN books[local[t].key] ELSE None]
    /\ pc' = [pc EXCEPT ![t] = "get_unlock"]
    /\ UNCHANGED <<books, next_book_id, booksWriter, booksReaders, idWriter,
                   clock, started, history>>
    /\ UNCHANGED notCat
    /\ UNCHANGED pending

\* .get(&id).cloned()
GetRead(t) ==
    /\ pc[t] = "get_read"
    /\ local' = [local EXCEPT ![t].out =
                   IF local[t].key \in DOMAIN books THEN books[local[t].key] ELSE None]
    /\ pc' = [pc EXCEPT ![t] = "get_unlock"]
    /\ UNCHANGED <<books, next_book_id, booksWriter, booksReaders, idWriter,
                   clock, started, history>>
    /\ UNCHANGED notCat
    /\ UNCHANGED pending

\* end of the expression: the read guard is dropped and the value returned
GetUnlock(t) ==
    /\ pc[t] = "get_unlock"
    /\ booksReaders' = booksReaders \ {t}
    /\ local' = [local EXCEPT ![t] = NoLocal]
    /\ pc' = [pc EXCEPT ![t] = "idle"]
    /\ UNCHANGED <<books, next_book_id, booksWriter, idWriter,
                   clock, started, history>>
    /\ UNCHANGED notCat
    /\ UNCHANGED pending

\* ---- get_all_books
\* QueryRoot::books calls db.get_all_books()
AllCall(t) ==
    /\ pc[t] = "idle"
    /\ pc' = [pc EXCEPT ![t] = "all_lock"]
    /\ UNCHANGED <<books, next_book_id, booksWriter, booksReaders, idWriter,
                   local, clock, started, history>>
    /\ UNCHANGED notCat
    /\ Arrives(t)

\* self.books.read().unwrap()
AllLock(t) ==
    /\ pc[t] = "all_lock"
    /\ booksWriter = NoTask
    /\ booksReaders' = booksReaders \cup {t}
    /\ pc' = [pc EXCEPT ![t] = "all_read"]
    /\ UNCHANGED <<books, next_book_id, booksWriter, idWriter,
                   local, clock, started, history>>
    /\ UNCHANGED notCat
    /\ UNCHANGED pending

\* .values().cloned().collect()   (HashMap order is unspecified: the Vec's
\* elements are kept as a set)
AllRead(t) ==
    /\ pc[t] = "all_read"
    /\ local' = [local EXCEPT ![t].out = [vec |-> {books[k] : k \in DOMAIN books}]]
    /\ pc' = [pc EXCEPT ![t] = "all_unlock"]
    /\ UNCHANGED <<books, next_book_id, booksWriter, booksReaders, idWriter,
                   clock, started, history>>
    /\ UNCHANGED notCat
    /\ UNCHANGED pending

AllUnlock(t) ==
    /\ pc[t] = "all_unlock"
    /\ booksReaders' = booksReaders \ {t}
    /\ local' = [local EXCEPT ![t] = NoLocal]
    /\ pc' = [pc EXCEPT ![t] = "idle"]
    /\ UNCHANGED <<books, next_book_id, booksWriter, idWriter,
                   clock, started, history>>
    /\ UNCHANGED notCat
    /\ UNCHANGED pending

CatNext ==
    \E t \in Tasks :
        \/ AddCall(t) \/ AddLockId(t) \/ AddReadId(t) \/ AddInc(t)
        \/ AddLockBooks(t) \/ AddInsert(t) \/ AddUnlockBooks(t) \/ AddReturn(t)
        \/ GetCall(t) \/ GetLock(t) \/ GetRead(t) \/ GetUnlock(t)
        \/ AllCall(t) \/ AllLock(t) \/ AllRead(t) \/ AllUnlock(t)

\* the steps of an operation that task t has started
CatStep(t) ==
    \/ AddLockId(t) \/ AddReadId(t) \/ AddInc(t)
    \/ AddLockBooks(t) \/ AddInsert(t) \/ AddUnlockBooks(t) \/ AddReturn(t)
    \/ GetLock(t) \/ GetRead(t) \/ GetUnlock(t)
    \/ AllLock(t) \/ AllRead(t) \/ AllUnlock(t)


\* ---- what a task holds and what it is about to touch
HoldsIdLock(t) == idWriter = t
HoldsBooksWrite(t) == booksWriter = t
HoldsBooksRead(t) == t \in booksReaders
HoldsBooksLock(t) == HoldsBooksWrite(t) \/ HoldsBooksRead(t)

\* the task's next step reads or writes *id_lock (lines 101, 102)
AccessingCounter(t) == pc[t] \in {"add_read_id", "add_inc"}
\* the task's next step reads or writes the map (lines 92, 96, 111)
ReadingBooks(t) == pc[t] \in {"get_read", "all_read"}
WritingBooks(t) == pc[t] = "add_insert"

\* two returned calls overlap: neither returned before the other started
Overlap(a, b) == ~(a.end < b.start) /\ ~(b.end < a.start)

\* C1: the ids that add_book returns are pairwise distinct, none is a seeded
\* id (1 or 2), and a call that starts after another has returned gets a
\* strictly greater id, whatever the interleaving of the request tasks.
C1_IdsUniqueIncreasing ==
    /\ \A a, b \in history : a # b => a.id # b.id
    /\ \A a \in history : a.id \notin DOMAIN SeedBooks
    /\ \A a, b \in history : a.end < b.start => a.id < b.id

\* two add_book calls that ran concurrently have both returned, the one that
\* started later with the smaller id, and a third call started after both
C1_Witness ==
    \E a, b, c \in history :
        /\ a # b /\ Overlap(a, b) /\ a.id < b.id /\ b.start < a.start
        /\ a.end < c.start /\ b.end < c.start

\* C2 as stated: every lock is held only for the single read or write of the
\* value it protects and released right after it; nothing is held after return.
C2_EachLockOnlyForItsAccess ==
    \A t \in Tasks :
        /\ HoldsIdLock(t) => pc[t] \in {"add_read_id", "add_inc"}
        /\ HoldsBooksWrite(t) => pc[t] \in {"add_insert", "add_unlock_books"}
        /\ HoldsBooksRead(t) => pc[t] \in {"get_read", "get_unlock", "all_read", "all_unlock"}
        /\ pc[t] = "idle" => ~HoldsIdLock(t) /\ ~HoldsBooksLock(t)

\* C2 amended: the books lock is held exactly for the one read or insert it
\* guards; the next_book_id write lock is held from its acquisition until
\* add_book returns, so also across the acquisition of the books lock and the
\* insert; a task that has returned holds no lock.
C2_LockScope ==
    \A t \in Tasks :
        /\ HoldsIdLock(t) <=> pc[t] \in {"add_read_id", "add_inc", "add_lock_books",
                                         "add_insert", "add_unlock_books", "add_return"}
        /\ HoldsBooksWrite(t) <=> pc[t] \in {"add_insert", "add_unlock_books"}
        /\ HoldsBooksRead(t) <=> pc[t] \in {"get_read", "get_unlock", "all_read", "all_unlock"}
        /\ pc[t] = "idle" => ~HoldsIdLock(t) /\ ~HoldsBooksLock(t)

\* an add_book is about to insert and still holds the counter lock
C2_Witness ==
    \E t \in Tasks : WritingBooks(t) /\ HoldsIdLock(t) /\ HoldsBooksWrite(t)
                     /\ next_book_id = local[t].id + 1

\* C10 as stated: one reader/writer lock, that of the map, is held at every
\* read or write of shared state, the next-id state included.
C10_SingleLockGuardsAll ==
    \A t \in Tasks :
        (AccessingCounter(t) \/ ReadingBooks(t) \/ WritingBooks(t)) => HoldsBooksLock(t)

\* C10 amended: the shared mutable state in use is the map and the
\* next_book_id counter, each behind its own reader/writer lock: the counter
\* is read and written under the counter's write lock and without the map's
\* lock; the map is written under its write lock, with no reader inside,
\* and read under its read lock, with no writer inside.
C10_EachResourceUnderItsOwnLock ==
    \A t \in Tasks :
        /\ AccessingCounter(t) => HoldsIdLock(t) /\ ~HoldsBooksLock(t)
        /\ WritingBooks(t) => HoldsBooksWrite(t) /\ booksReaders = {}
        /\ ReadingBooks(t) => HoldsBooksRead(t) /\ booksWriter = NoTask

\* one task writes the counter while another reads the map under the map's lock
C10_Witness ==
    \E t, u \in Tasks : t # u /\ pc[t] = "add_inc" /\ HoldsIdLock(t) /\ ReadingBooks(u)
                        /\ HoldsBooksRead(u)


\* C13: every entry of the books map is stored under the key equal to its own
\* id; whenever no add_book holds the counter lock, next_book_id is strictly
\* greater than every key of the map; the insert of add_book never meets a
\* key that is already present.
C13_KeysAreIdsBelowCounter ==
    /\ \A k \in DOMAIN books : books[k].id = k
    /\ idWriter = NoTask => \A k \in DOMAIN books : k < next_book_id
    /\ \A t \in Tasks : WritingBooks(t) => local[t].id \notin DOMAIN books

\* a second add_book is about to insert under key 4, after key 3 was inserted
C13_Witness ==
    \E t \in Tasks :
        /\ WritingBooks(t) /\ local[t].id = 4
        /\ DOMAIN books = {1, 2, 3} /\ books[3].title = "Dune"

\* add_book takes the counter lock first and the books lock while it holds it;
\* a task that waits for the counter lock holds nothing, a reader never holds it
LockOrder ==
    \A t \in Tasks :
        /\ HoldsBooksWrite(t) => HoldsIdLock(t)
        /\ pc[t] = "add_lock_id" => ~HoldsBooksLock(t) /\ ~HoldsIdLock(t)
        /\ HoldsBooksRead(t) => ~HoldsIdLock(t)

\* C12: with finitely many request tasks, each running one get_book,
\* get_all_books or add_book, a fair scheduler and no panic, the locks are
\* taken in the order counter then books and every started operation returns.
C12_EveryOperationReturns ==
    /\ []LockOrder
    /\ \A t \in Tasks : (pc[t] # "idle") ~> (pc[t] = "idle")

\* an add_book holds the counter lock and waits for the books lock, which a
\* reader holds, while every task has its operation under way
C12_Witness ==
    \E t, u \in Tasks :
        /\ pc[t] = "add_lock_books" /\ HoldsIdLock(t)
        /\ HoldsBooksRead(u)
        /\ \A v \in Tasks : pending[v] = 0 /\ pc[v] # "idle"

\* =============================================================== text and JSON
\* Text is a sequence of one-character strings.
Digits == <<"0", "1", "2", "3", "4", "5", "6", "7", "8", "9">>

\* format!("{}", n) of an unsigned integer
RECURSIVE Dec(_)
Dec(n) == IF n < 10 THEN <<Digits[n + 1]>>
          ELSE Dec(n \div 10) \o <<Digits[(n % 10) + 1]>>

DigitValue(c) == (CHOOSE d \in 1..10 : Digits[d] = c) - 1
IsDigit(c) == \E d \in 1..10 : Digits[d] = c

\* str::parse::<u64> as Path<u64> applies it: -1 stands for a parse error
RECURSIVE ParseDec(_)
ParseDec(s) ==
    IF s = <<>> THEN -1
    ELSE IF ~IsDigit(s[Len(s)]) THEN -1
    ELSE IF Len(s) = 1 THEN DigitValue(s[1])
    ELSE LET hi == ParseDec(SubSeq(s, 1, Len(s) - 1))
         IN  IF hi < 0 THEN -1 ELSE hi * 10 + DigitValue(s[Len(s)])

HasPrefix(s, p) == Len(s) >= Len(p) /\ SubSeq(s, 1, Len(p)) = p
DropPrefix(s, p) == SubSeq(s, Len(p) + 1, Len(s))

\* A JSON document is the sequence of its <<key, value>> members in the order
\* they are written; a value is [num |-> n], [str |-> text] or [float |-> lit].
JNum(n) == [num |-> n]
JStr(t) == [str |-> t]
JFloat(lit) == [float |-> lit]
JKeys(doc) == {doc[i][1] : i \in DOMAIN doc}
JHas(doc, k) == k \in JKeys(doc)
JGet(doc, k) == doc[CHOOSE i \in DOMAIN doc : doc[i][1] = k][2]
IsNum(v) == DOMAIN v = {"num"}
IsStr(v) == DOMAIN v = {"str"}
IsFloat(v) == DOMAIN v = {"float"}
\* serde_json::Value::Object of a document: a map from key to value
JObject(doc) == [k \in JKeys(doc) |-> JGet(doc, k)]

\* ============================================================== microservices
LocalHost == "127.0.0.1"
UserServicePort == 8081     \* user_service::start
OrderServicePort == 8082    \* order_service::start
GwUserPort == 8081          \* the port in proxy_get_user's URL
GwOrderPort == 8082         \* the port in proxy_get_order's URL
UsersPath == <<"/", "u", "s", "e", "r", "s", "/">>
OrdersPath == <<"/", "o", "r", "d", "e", "r", "s", "/">>

\* ---- user_service::get_user
UserText == <<"U", "s", "e", "r", " ">>
UserMailLocal == <<"u", "s", "e", "r">>
ExampleDomain == <<"@", "e", "x", "a", "m", "p", "l", "e", ".", "c", "o", "m">>

\* Json(User { id, name: format!("User {}", id), email: format!("user{}@example.com", id) })
GetUser(id) ==
    [id |-> id,
     name |-> UserText \o Dec(id),
     email |-> UserMailLocal \o Dec(id) \o ExampleDomain]

\* ---- order_service::get_order
ProductText == <<"P", "r", "o", "d", "u", "c", "t", " ">>
\* the f64 99.99: serde_json writes it as 99.99 and reads 99.99 back as the same f64
Amount == "99.99"

\* an order service that remembers how many requests came before
GetOrderCounting(id) ==
    [id |-> id, user_id |-> 1 + Len(served), product |-> ProductText \o Dec(id),
     amount |-> Amount]

\* Json(Order { id, user_id: 1, product: format!("Product {}", id), amount: 99.99 })
GetOrder(id) ==
    [id |-> id, user_id |-> 1, product |-> ProductText \o Dec(id), amount |-> Amount]

\* ---- #[derive(Serialize, Deserialize)] for User and Order
SerUser(u) ==
    <<<<"id", JNum(u.id)>>, <<"name", JStr(u.name)>>, <<"email", JStr(u.email)>>>>

SerOrder(o) ==
    <<<<"id", JNum(o.id)>>, <<"user_id", JNum(o.user_id)>>,
      <<"product", JStr(o.product)>>, <<"amount", JFloat(o.amount)>>>>

\* Deserialize: every field must be present with its type; [ok |-> FALSE] is Err
DeUser(doc) ==
    IF /\ JHas(doc, "id") /\ IsNum(JGet(doc, "id"))
       /\ JHas(doc, "name") /\ IsStr(JGet(doc, "name"))
       /\ JHas(doc, "email") /\ IsStr(JGet(doc, "email"))
    THEN [ok |-> TRUE,
          val |-> [id |-> JGet(doc, "id").num, name |-> JGet(doc, "name").str,
                   email |-> JGet(doc, "email").str]]
    ELSE [ok |-> FALSE]

DeOrder(doc) ==
    IF /\ JHas(doc, "id") /\ IsNum(JGet(doc, "id"))
       /\ JHas(doc, "user_id") /\ IsNum(JGet(doc, "user_id"))
       /\ JHas(doc, "product") /\ IsStr(JGet(doc, "product"))
       /\ JHas(doc, "amount") /\ IsFloat(JGet(doc, "amount"))
    THEN [ok |-> TRUE,
          val |-> [id |-> JGet(doc, "id").num, user_id |-> JGet(doc, "user_id").num,
                   product |-> JGet(doc, "product").str,
                   amount |-> JGet(doc, "amount").float]]
    ELSE [ok |-> FALSE]

\* serde_json::to_value
ToValueUser(u) == JObject(SerUser(u))
ToValueOrder(o) == JObject(SerOrder(o))

\* ---- the gateway's outbound URLs
\* a gateway that alternates between two instances of each backend
RoundRobinPort(route) ==
    IF route = "users" THEN GwUserPort + 2 * (Len(gwOut) % 2)
    ELSE GwOrderPort + 2 * (Len(gwOut) % 2)

\* the one port written in each proxy handler's URL
UpstreamPort(route) == IF route = "users" THEN GwUserPort ELSE GwOrderPort

\* a gateway that asks the backend for the next id
UpstreamUrlNext(route, id) ==
    [host |-> LocalHost, port |-> UpstreamPort(route),
     path |-> (IF route = "users" THEN UsersPath ELSE OrdersPath) \o Dec(id + 1)]

\* format!("http://127.0.0.1:8081/users/{}", id), .../8082/orders/{}
UpstreamUrl(route, id) ==
    [host |-> LocalHost, port |-> UpstreamPort(route),
     path |-> (IF route = "users" THEN UsersPath ELSE OrdersPath) \o Dec(id)]

\* ---- the gateway's request-handling tasks
GwReqs == 1..MaxGwReqs
Routes == {"users", "orders"}
Ids == {0, 7, 10}

NoReq == [st |-> "none", route |-> "", id |-> 0, reply |-> None, resp |-> None]

GwInit ==
    /\ gw = [r \in GwReqs |-> NoReq]
    /\ gwOut = <<>>

\* the outbound request the task of r waits on: the last one it sent
OutOf(r) ==
    gwOut[CHOOSE i \in DOMAIN gwOut :
            /\ gwOut[i].req = r
            /\ \A j \in DOMAIN gwOut : gwOut[j].req = r => j <= i]

\* GET /api/users/{id} or GET /api/orders/{id} arrives: Path(id) is extracted
GwReceive(r) ==
    /\ gw[r].st = "none"
    /\ \A q \in GwReqs : q < r => gw[q].st # "none"
    /\ \E route \in Routes, id \in Ids :
         gw' = [gw EXCEPT ![r] = [NoReq EXCEPT !.st = "received", !.route = route, !.id = id]]
    /\ UNCHANGED gwOut
    /\ UNCHANGED notGw

\* client.get(format!(...)).send()
GwSend(r) ==
    /\ gw[r].st = "received"
    /\ gwOut' = Append(gwOut, [req |-> r, url |-> UpstreamUrl(gw[r].route, gw[r].id)])
    /\ gw' = [gw EXCEPT ![r].st = "awaiting"]
    /\ UNCHANGED notGw

\* the user service, listening on 127.0.0.1:8081, routes GET /users/{id} to get_user
UserServe(r) ==
    /\ gw[r].st = "awaiting"
    /\ LET url == OutOf(r).url
       IN  /\ url.host = LocalHost /\ url.port = UserServicePort
           /\ HasPrefix(url.path, UsersPath)
           /\ ParseDec(DropPrefix(url.path, UsersPath)) >= 0
           /\ gw' = [gw EXCEPT ![r].st = "replied",
                               ![r].reply =
                                  [ok |-> TRUE,
                                   body |-> SerUser(GetUser(ParseDec(DropPrefix(url.path, UsersPath))))]]
    /\ UNCHANGED gwOut
    /\ UNCHANGED notGw

\* the order service, listening on 127.0.0.1:8082, routes GET /orders/{id} to get_order
OrderServe(r) ==
    /\ gw[r].st = "awaiting"
    /\ LET url == OutOf(r).url
       IN  /\ url.host = LocalHost /\ url.port = OrderServicePort
           /\ HasPrefix(url.path, OrdersPath)
           /\ ParseDec(DropPrefix(url.path, OrdersPath)) >= 0
           /\ gw' = [gw EXCEPT ![r].st = "replied",
                               ![r].reply =
                                  [ok |-> TRUE,
                                   body |-> SerOrder(GetOrder(ParseDec(DropPrefix(url.path, OrdersPath))))]]
    /\ UNCHANGED gwOut
    /\ UNCHANGED notGw

\* the connection fails (nothing listens, or the backend is gone): send() is Err
ConnectFail(r) ==
    /\ gw[r].st = "awaiting"
    /\ gw' = [gw EXCEPT ![r].st = "replied", ![r].reply = [ok |-> FALSE]]
    /\ UNCHANGED gwOut
    /\ UNCHANGED notGw

\* the body reaches the gateway cut short: its last member is missing
BodyCut(r) ==
    /\ gw[r].st = "replied"
    /\ gw[r].reply.ok
    /\ JHas(gw[r].reply.body, IF gw[r].route = "users" THEN "email" ELSE "amount")
    /\ gw' = [gw EXCEPT ![r].reply.body = SubSeq(@, 1, Len(@) - 1)]
    /\ UNCHANGED gwOut
    /\ UNCHANGED notGw

Deserialized(r) ==
    IF gw[r].route = "users" THEN DeUser(gw[r].reply.body) ELSE DeOrder(gw[r].reply.body)

\* a gateway that tries again after a failure
GwFinishRetry(r) ==
    /\ gw[r].st = "replied"
    /\ UNCHANGED gwOut
    /\ IF ~gw[r].reply.ok \/ ~Deserialized(r).ok
       THEN gw' = [gw EXCEPT ![r].st = "received", ![r].reply = None]
       ELSE gw' = [gw EXCEPT ![r].st = "answered",
                             ![r].resp =
                                IF gw[r].route = "users"
                                THEN [service |-> "user-service",
                                      data |-> ToValueUser(Deserialized(r).val)]
                                ELSE [service |-> "order-service",
                                      data |-> ToValueOrder(Deserialized(r).val)]]
    /\ UNCHANGED notGw

\* .await.unwrap().json().await.unwrap(), then Json(GatewayResponse { .. })
GwFinish(r) ==
    /\ gw[r].st = "replied"
    /\ UNCHANGED gwOut
    /\ IF ~gw[r].reply.ok
       THEN gw' = [gw EXCEPT ![r].st = "panicked"]
       ELSE IF ~Deserialized(r).ok
       THEN gw' = [gw EXCEPT ![r].st = "panicked"]
       ELSE gw' = [gw EXCEPT ![r].st = "answered",
                             ![r].resp =
                                IF gw[r].route = "users"
                                THEN [service |-> "user-service",
                                      data |-> ToValueUser(Deserialized(r).val)]
                                ELSE [service |-> "order-service",
                                      data |-> ToValueOrder(Deserialized(r).val)]]
    /\ UNCHANGED notGw

GwNext ==
    \E r \in GwReqs :
        \/ GwReceive(r) \/ GwSend(r) \/ UserServe(r) \/ OrderServe(r)
        \/ ConnectFail(r) \/ BodyCut(r) \/ GwFinish(r)

\* ---- claims about the gateway
GwPrefix(route) == IF route = "users" THEN UsersPath ELSE OrdersPath
SentBy(r) == {i \in DOMAIN gwOut : gwOut[i].req = r}
GwFailed(r) == gw[r].reply # None /\ (~gw[r].reply.ok \/ ~Deserialized(r).ok)

\* C3: an answered GET /api/users/{id} carries service "user-service" and, as
\* data, the record the user service returns for GET /users/{id} with the same
\* id, name and email; likewise for orders with "order-service"; the id in
\* the outbound path is the id the gateway received.
C3_GatewayRelaysBackend ==
    \A r \in GwReqs :
        gw[r].st = "answered" =>
            /\ ParseDec(DropPrefix(OutOf(r).url.path, GwPrefix(gw[r].route))) = gw[r].id
            /\ gw[r].resp.data = JObject(gw[r].reply.body)
            /\ gw[r].resp.data["id"] = JNum(gw[r].id)
            /\ IF gw[r].route = "users"
               THEN /\ gw[r].resp.service = "user-service"
                    /\ gw[r].resp.data = JObject(SerUser(GetUser(gw[r].id)))
               ELSE /\ gw[r].resp.service = "order-service"
                    /\ gw[r].resp.data = JObject(SerOrder(GetOrder(gw[r].id)))

\* a user with a two-digit id and an order have both been relayed
C3_Witness ==
    \E r, q \in GwReqs :
        /\ gw[r].st = "answered" /\ gw[r].route = "users" /\ gw[r].id = 10
        /\ gw[r].resp.data["email"] =
             JStr(<<"u", "s", "e", "r", "1", "0">> \o ExampleDomain)
        /\ gw[q].st = "answered" /\ gw[q].route = "orders"

\* C4: an inbound request causes at most one outbound request, and when that
\* call fails (no connection, or a body that does not deserialize) the task
\* panics: no GatewayResponse, no second attempt, no fallback value.
C4_UnwrapOrPanicNoRetry ==
    \A r \in GwReqs :
        /\ Cardinality(SentBy(r)) <= 1
        /\ GwFailed(r) => gw[r].st \in {"replied", "panicked"} /\ gw[r].resp = None
        /\ gw[r].st = "panicked" => GwFailed(r) /\ gw[r].resp = None
        /\ gw[r].st = "answered" => ~GwFailed(r) /\ gw[r].resp # None

\* one task has panicked on a failed connection, another on a cut body
C4_Witness ==
    \E r, q \in GwReqs :
        /\ gw[r].st = "panicked" /\ ~gw[r].reply.ok
        /\ gw[q].st = "panicked" /\ gw[q].reply.ok /\ ~Deserialized(q).ok
        /\ Len(gwOut) = 2

Services == {"user", "order"}
SvcRunning == {"starting", "serving"}
SvcFinished == {"ok", "err", "panicked"}

MainInit ==
    /\ mainPc = "start"
    /\ mainSlept = 0
    /\ mainWaited = FALSE
    /\ mainResult = "none"
    /\ svc = [s \in Services |-> "unspawned"]
    /\ gateway = "not_started"

\* dropping the runtime when main returns cancels the tasks still running
Shutdown == [s \in Services |-> IF svc[s] \in SvcRunning THEN "cancelled" ELSE svc[s]]

\* let user_service = tokio::spawn(user_service::start());
MainSpawnUser ==
    /\ mainPc = "start"
    /\ svc' = [svc EXCEPT !["user"] = "starting"]
    /\ mainPc' = "spawn_order"
    /\ UNCHANGED <<mainSlept, mainWaited, mainResult, gateway>>
    /\ UNCHANGED notMain

\* let order_service = tokio::spawn(order_service::start());
MainSpawnOrder ==
    /\ mainPc = "spawn_order"
    /\ svc' = [svc EXCEPT !["order"] = "starting"]
    /\ mainPc' = "sleep"
    /\ UNCHANGED <<mainSlept, mainWaited, mainResult, gateway>>
    /\ UNCHANGED notMain

\* a second of tokio::time::sleep(Duration::from_secs(2)) passes
MainTick ==
    /\ mainPc = "sleep"
    /\ mainSlept < StartupDelaySecs
    /\ mainSlept' = mainSlept + 1
    /\ UNCHANGED <<mainPc, mainWaited, mainResult, svc, gateway>>
    /\ UNCHANGED notMain

\* a main that starts the gateway without waiting for the sleep to end
MainWakeEarly ==
    /\ mainPc = "sleep"
    /\ gateway' = "starting"
    /\ mainPc' = "gateway"
    /\ UNCHANGED <<mainSlept, mainWaited, mainResult, svc>>
    /\ UNCHANGED notMain

\* the sleep is over: gateway::start() is called and awaited
MainWake ==
    /\ mainPc = "sleep"
    /\ mainSlept >= StartupDelaySecs
    /\ gateway' = "starting"
    /\ mainPc' = "gateway"
    /\ UNCHANGED <<mainSlept, mainWaited, mainResult, svc>>
    /\ UNCHANGED notMain

\* RustApi::auto().run("127.0.0.1:8081" / "127.0.0.1:8082") binds and serves
SvcBind(s) ==
    /\ svc[s] = "starting"
    /\ svc' = [svc EXCEPT ![s] = "serving"]
    /\ UNCHANGED <<mainPc, mainSlept, mainWaited, mainResult, gateway>>
    /\ UNCHANGED notMain

\* run returns in the spawned task: Err (the port is taken, an I/O error) or Ok
SvcReturn(s) ==
    /\ \/ svc[s] = "starting" /\ svc' = [svc EXCEPT ![s] = "err"]
       \/ svc[s] = "serving" /\ \E out \in {"ok", "err"} : svc' = [svc EXCEPT ![s] = out]
    /\ UNCHANGED <<mainPc, mainSlept, mainWaited, mainResult, gateway>>
    /\ UNCHANGED notMain

\* the spawned task panics: its JoinHandle yields a JoinError
SvcPanic(s) ==
    /\ svc[s] \in SvcRunning
    /\ svc' = [svc EXCEPT ![s] = "panicked"]
    /\ UNCHANGED <<mainPc, mainSlept, mainWaited, mainResult, gateway>>
    /\ UNCHANGED notMain

\* RustApi::auto().run("127.0.0.1:8080") binds and serves
GatewayBind ==
    /\ gateway = "starting"
    /\ gateway' = "serving"
    /\ UNCHANGED <<mainPc, mainSlept, mainWaited, mainResult, svc>>
    /\ UNCHANGED notMain

\* run returns: Err (the port is taken, an I/O error) or Ok
GatewayReturn ==
    /\ \/ gateway = "starting" /\ gateway' = "err"
       \/ gateway = "serving" /\ \E out \in {"ok", "err"} : gateway' = out
    /\ UNCHANGED <<mainPc, mainSlept, mainWaited, mainResult, svc>>
    /\ UNCHANGED notMain

\* gateway::start().await? with Err: main returns the error
MainGatewayErr ==
    /\ mainPc = "gateway"
    /\ gateway = "err"
    /\ mainResult' = "Err"
    /\ mainPc' = "returned"
    /\ svc' = Shutdown
    /\ UNCHANGED <<mainSlept, mainWaited, gateway>>
    /\ UNCHANGED notMain

\* gateway::start().await? with Ok: main goes on to try_join!
MainGatewayOk ==
    /\ mainPc = "gateway"
    /\ gateway = "ok"
    /\ mainWaited' = TRUE
    /\ mainPc' = "join"
    /\ UNCHANGED <<mainSlept, mainResult, svc, gateway>>
    /\ UNCHANGED notMain

\* let _ = tokio::try_join!(user_service, order_service); Ok(())
\* try_join! ends when both handles are ready or one yields a JoinError
MainJoined ==
    /\ mainPc = "join"
    /\ \/ \A s \in Services : svc[s] \in SvcFinished
       \/ \E s \in Services : svc[s] = "panicked"
    /\ mainResult' = "Ok"
    /\ mainPc' = "returned"
    /\ svc' = Shutdown
    /\ UNCHANGED <<mainSlept, mainWaited, gateway>>
    /\ UNCHANGED notMain

MainNext ==
    \/ MainSpawnUser \/ MainSpawnOrder \/ MainTick \/ MainWake
    \/ GatewayBind \/ GatewayReturn
    \/ MainGatewayErr \/ MainGatewayOk \/ MainJoined
    \/ \E s \in Services : SvcBind(s) \/ SvcReturn(s) \/ SvcPanic(s)

\* C11: gateway::start begins only after both service tasks are spawned and
\* the 2 seconds of the start-up sleep have passed; main does not return Ok
\* while the gateway still serves; when gateway::start returns an error main
\* returns that error without awaiting the service tasks.
C11_StartupOrdering ==
    /\ gateway # "not_started" =>
          /\ \A s \in Services : svc[s] # "unspawned"
          /\ mainSlept >= 2
    /\ mainResult = "Ok" => gateway = "ok" /\ mainPc = "returned"
    /\ gateway = "err" => mainPc \in {"gateway", "returned"} /\ ~mainWaited
    /\ (mainPc = "returned" /\ gateway = "err") => mainResult = "Err"
    /\ mainResult = "Err" => gateway = "err" /\ ~mainWaited

\* the gateway failed while both services still served, and main has returned
\* the error: the services were cut off, not awaited
C11_Witness ==
    /\ mainResult = "Err"
    /\ gateway = "err"
    /\ \A s \in Services : svc[s] = "cancelled"
    /\ mainSlept = 2

\* ============================================ hello-world and the health checks
HelloText == <<"H", "e", "l", "l", "o", ",", " ">>
Bang == <<"!">>
World == <<"W", "o", "r", "l", "d">>
Names == {<<>>, World, <<"a", "!">>}

\* a greeting without the closing "!"
HelloNoBang(name) == [greeting |-> HelloText \o name]

\* hello: Json(Message { greeting: format!("Hello, {name}!") })
Hello(name) == [greeting |-> HelloText \o name \o Bang]

\* phase11-demo health_endpoint
P11Health ==
    [status |-> "healthy", version |-> "1.0.0",
     checks |-> [database |-> "healthy", cache |-> "healthy"]]

\* rate-limit-demo health
RlHealth == [status |-> "healthy", requests_remaining |-> None]

PlainInit ==
    /\ served = <<>>
    /\ fresh = <<>>

\* the request is answered by the long-running run or by the fresh one
Answered(entry) ==
    \/ /\ Len(served) < MaxServed
       /\ served' = Append(served, entry)
       /\ UNCHANGED fresh
    \/ /\ fresh = <<>>
       /\ fresh' = <<entry>>
       /\ UNCHANGED served

\* GET /hello/{name}
HelloReq ==
    /\ \E name \in Names :
         Answered([handler |-> "hello", param |-> name, resp |-> Hello(name)])
    /\ UNCHANGED notPlain

\* GET /health of phase11-demo
P11HealthReq ==
    /\ Answered([handler |-> "phase11_health", param |-> <<>>, resp |-> P11Health])
    /\ UNCHANGED notPlain

\* GET /health of rate-limit-demo
RlHealthReq ==
    /\ Answered([handler |-> "rl_health", param |-> <<>>, resp |-> RlHealth])
    /\ UNCHANGED notPlain

\* GET /users/{id} of the user service
GetUserReq ==
    /\ \E id \in Ids :
         Answered([handler |-> "get_user", param |-> id, resp |-> SerUser(GetUser(id))])
    /\ UNCHANGED notPlain

\* GET /orders/{id} of the order service
GetOrderReq ==
    /\ \E id \in Ids :
         Answered([handler |-> "get_order", param |-> id,
                   resp |-> SerOrder(GetOrder(id))])
    /\ UNCHANGED notPlain

PlainNext == HelloReq \/ P11HealthReq \/ RlHealthReq \/ GetUserReq \/ GetOrderReq

SameRequest(a, b) == a.handler = b.handler /\ a.param = b.param

GreetingOk(e) ==
    e.handler = "hello" =>
        LET g == e.resp.greeting
        IN  /\ DOMAIN e.resp = {"greeting"}
            /\ Len(g) = Len(e.param) + 8
            /\ SubSeq(g, 1, 7) = <<"H", "e", "l", "l", "o", ",", " ">>
            /\ SubSeq(g, 8, 7 + Len(e.param)) = e.param
            /\ g[Len(g)] = "!"
            /\ e.param = <<"W", "o", "r", "l", "d">> =>
                 g = <<"H", "e", "l", "l", "o", ",", " ", "W", "o", "r", "l", "d", "!">>

\* C9: the greeting of GET /hello/{name} is "Hello, " followed by the name
\* followed by "!"; for World it is "Hello, World!".
C9_HelloGreeting ==
    /\ \A i \in DOMAIN served : GreetingOk(served[i])
    /\ \A i \in DOMAIN fresh : GreetingOk(fresh[i])

\* /hello/World has been answered after another request
C9_Witness ==
    /\ Len(served) = 2
    /\ served[2].handler = "hello" /\ served[2].param = World
    /\ Len(served[2].resp.greeting) = 13

\* ===================================================== phase11-demo: GET /slow
SlowReqs == 1..MaxSlowReqs
SlowBody == "This should timeout"

SlowInit == slow = [r \in SlowReqs |-> [st |-> "idle", slept |-> 0, body |-> None]]

\* a request to GET /slow starts: tokio::time::sleep(Duration::from_secs(35))
SlowStart(r) ==
    /\ slow[r].st = "idle"
    /\ slow' = [slow EXCEPT ![r].st = "sleeping"]
    /\ UNCHANGED notSlow

\* a second passes for every request that sleeps
SlowTick ==
    /\ \E r \in SlowReqs : slow[r].st = "sleeping" /\ slow[r].slept < SlowDelaySecs
    /\ slow' = [r \in SlowReqs |->
                  IF slow[r].st = "sleeping" /\ slow[r].slept < SlowDelaySecs
                  THEN [slow[r] EXCEPT !.slept = @ + 1]
                  ELSE slow[r]]
    /\ UNCHANGED notSlow

\* a server with the 30 s timeout of the comment configured
SlowWakeOrTimeout(r) ==
    /\ slow[r].st = "sleeping"
    /\ slow[r].slept >= IntendedTimeoutSecs
    /\ slow' = [slow EXCEPT ![r].st = "timed_out", ![r].body = "408 Request Timeout"]
    /\ UNCHANGED notSlow

\* the sleep is over: the handler returns "This should timeout"
SlowWake(r) ==
    /\ slow[r].st = "sleeping"
    /\ slow[r].slept >= SlowDelaySecs
    /\ slow' = [slow EXCEPT ![r].st = "done", ![r].body = SlowBody]
    /\ UNCHANGED notSlow

SlowNext == SlowTick \/ \E r \in SlowReqs : SlowStart(r) \/ SlowWake(r)

SlowOutcomeOk ==
    \A r \in SlowReqs :
        /\ slow[r].st \in {"idle", "sleeping", "done"}
        /\ slow[r].st = "done" => slow[r].slept = 35 /\ slow[r].body = "This should timeout"
        /\ slow[r].st # "done" => slow[r].body = None

RlRoutes == {"/api/limited", "/api/relaxed", "/health"}
RlSteps == {30}

RlInit ==
    /\ rlNow = 0
    /\ rlLog = <<>>

\* SystemTime::now().duration_since(UNIX_EPOCH).unwrap().as_secs()
Timestamp == rlNow

\* limited_endpoint
Limited == [message |-> "This endpoint has strict rate limits", timestamp |-> Timestamp]

\* relaxed_endpoint
Relaxed == [message |-> "This endpoint has relaxed rate limits", timestamp |-> Timestamp]

RlAnswered(route, resp) ==
    /\ Len(rlLog) < MaxRlReqs
    /\ rlLog' = Append(rlLog, [route |-> route, time |-> rlNow, resp |-> resp])
    /\ UNCHANGED rlNow

\* GET /api/limited
LimitedReq == RlAnswered("/api/limited", Limited) /\ UNCHANGED notRl

\* GET /api/relaxed
RelaxedReq == RlAnswered("/api/relaxed", Relaxed) /\ UNCHANGED notRl

\* GET /health
RlHealthServe == RlAnswered("/health", RlHealth) /\ UNCHANGED notRl

\* time passes
RlTick ==
    /\ \E d \in RlSteps : rlNow + d <= MaxRlNow /\ rlNow' = rlNow + d
    /\ UNCHANGED rlLog
    /\ UNCHANGED notRl

RlNext == LimitedReq \/ RelaxedReq \/ RlHealthServe \/ RlTick

\* the normal body of a route at a time
RlNormal(route, time) ==
    IF route = "/api/limited"
    THEN [message |-> "This endpoint has strict rate limits", timestamp |-> time]
    ELSE IF route = "/api/relaxed"
    THEN [message |-> "This endpoint has relaxed rate limits", timestamp |-> time]
    ELSE RlHealth

\* the requests before i, to the same route, served normally less than 60 s before
RlServedInMinuteBefore(i) ==
    {j \in 1..(i - 1) :
        /\ rlLog[j].route = rlLog[i].route
        /\ rlLog[j].resp = RlNormal(rlLog[j].route, rlLog[j].time)
        /\ rlLog[i].time - rlLog[j].time < 60}

\* C5: once 5 requests to /api/limited have been served within a minute, a
\* further one in that minute is not served the normal ApiResponse; the same
\* for /api/relaxed with 100; /health is always served.
C5_RateLimited ==
    \A i \in DOMAIN rlLog :
        /\ (rlLog[i].route = "/api/limited"
              /\ Cardinality(RlServedInMinuteBefore(i)) >= LimitedPerMinute)
           => rlLog[i].resp # RlNormal("/api/limited", rlLog[i].time)
        /\ (rlLog[i].route = "/api/relaxed"
              /\ Cardinality(RlServedInMinuteBefore(i)) >= RelaxedPerMinute)
           => rlLog[i].resp # RlNormal("/api/relaxed", rlLog[i].time)
        /\ rlLog[i].route = "/health" => rlLog[i].resp = RlHealth

\* ====================================================================== specs
Init == CatInit /\ GwInit /\ PlainInit /\ SlowInit /\ RlInit /\ MainInit

SpecCatalogue == Init /\ [][CatNext]_vars

SpecGateway == Init /\ [][GwNext]_vars

SpecPlain == Init /\ [][PlainNext]_vars

\* the runtime keeps the clock running and polls a task whose timer has fired
SpecSlow ==
    /\ Init
    /\ [][SlowNext]_vars
    /\ WF_vars(SlowTick)
    /\ \A r \in SlowReqs : WF_vars(SlowWake(r))

SpecRateLimit == Init /\ [][RlNext]_vars

SpecMain == Init /\ [][MainNext]_vars

InitOnce == CatInitOnce /\ GwInit /\ PlainInit /\ SlowInit /\ RlInit /\ MainInit

\* every task runs one operation; the runtime keeps running a task that can
\* take its next step, and a lock that is free is given to a task waiting for it
SpecCatalogueFair ==
    /\ InitOnce
    /\ [][CatNext]_vars
    /\ \A t \in Tasks : WF_vars(CatStep(t))

====
